---- MODULE Spec2Model ----
(***************************************************************************)
(* Model of crypt.py: the CryptoAnalyzer class (Caesar and mono-alphabetic *)
(* transforms, chi-squared / word scoring, key search) and the example     *)
(* driver usage_personnalisee.                                             *)
(*                                                                         *)
(* A text is a sequence of Unicode code points (Latin-1 range).  A float   *)
(* score is a record [inf, val]: inf is TRUE for float('inf'), otherwise   *)
(* val is the score in units of 1/Scale, every division rounded down.      *)
(***************************************************************************)
EXTENDS Integers, Sequences, FiniteSets, TLC

VARIABLES
    FR_FREQUENCIES,   \* module table: letter -> frequency, in 1/100 of a percent
    FR_COMMON_WORDS,  \* module table: set of words
    encrypted,        \* self.encrypted
    clean_text,       \* self.clean_text
    text,             \* the text the caller holds and passes to the methods
    op,               \* the last method called
    arg,              \* its shift or key argument (<<>> when it has none)
    out,              \* what it returned
    made,             \* how many analyzers the caller has constructed
    first_triple,     \* what the analyzer's first break_caesar() returned
    called_since      \* whether another method was called on it since then

vars == <<FR_FREQUENCIES, FR_COMMON_WORDS, encrypted, clean_text, text,
          op, arg, out, made, first_triple, called_since>>

-----------------------------------------------------------------------------
(* Characters and strings                                                  *)

Letters == <<"a","b","c","d","e","f","g","h","i","j","k","l","m",
             "n","o","p","q","r","s","t","u","v","w","x","y","z">>

Capitals == <<"A","B","C","D","E","F","G","H","I","J","K","L","M",
              "N","O","P","Q","R","S","T","U","V","W","X","Y","Z">>

\* ord() of the characters the examples are written with; the accented
\* letters are spelled out
Ord(c) ==
    CASE c = " "  -> 32
      [] c = ","  -> 44
      [] c = "e_acute" -> 233
      [] c = "E_acute" -> 201
      [] c = "a_grave" -> 224
      [] \E i \in 1..26 : Letters[i] = c -> 96 + (CHOOSE i \in 1..26 : Letters[i] = c)
      [] \E i \in 1..26 : Capitals[i] = c -> 64 + (CHOOSE i \in 1..26 : Capitals[i] = c)

\* a string literal, written as a tuple of its characters
Str(cs) == [i \in 1..Len(cs) |-> Ord(cs[i])]

\* string.ascii_lowercase
ascii_lowercase == [i \in 1..26 |-> Ord(Letters[i])]

\* str.isalpha() of one character, on code points 0..255
isalpha(c) ==
    \/ c \in 65..90
    \/ c \in 97..122
    \/ c \in {170, 181, 186}
    \/ c \in 192..214
    \/ c \in 216..246
    \/ c \in 248..255

\* str.isspace() of one character: the separators of str.split()
isspace(c) ==
    \/ c \in 9..13
    \/ c \in 28..32
    \/ c \in {133, 160}

\* str.lower() of one character, on code points 0..255
lower_char(c) ==
    IF c \in 65..90 \/ c \in 192..214 \/ c \in 216..222 THEN c + 32 ELSE c

\* str.lower()
lower(s) == [i \in 1..Len(s) |-> lower_char(s[i])]

\* the join of (c for c in s if c.isalpha())
alpha_only(s) == SelectSeq(s, isalpha)

\* collections.Counter(s)[c]
count(s, c) == Cardinality({i \in 1..Len(s) : s[i] = c})

RECURSIVE split(_)
\* str.split(): the maximal runs of non-whitespace characters, in order
split(s) ==
    IF s = <<>> THEN <<>>
    ELSE IF isspace(Head(s)) THEN split(Tail(s))
    ELSE LET stop == IF \E i \in 1..Len(s) : isspace(s[i])
                     THEN CHOOSE i \in 1..Len(s) :
                              /\ isspace(s[i])
                              /\ \A j \in 1..(i - 1) : ~isspace(s[j])
                     ELSE Len(s) + 1
         IN  <<SubSeq(s, 1, stop - 1)>> \o split(SubSeq(s, stop, Len(s)))

-----------------------------------------------------------------------------
(* The module tables                                                       *)

\* FR_FREQUENCIES: 17.26 is written 1726
FrequencyTable ==
    Ord("e") :> 1726 @@ Ord("a") :> 823 @@ Ord("i") :> 724
 @@ Ord("o") :> 528 @@ Ord("n") :> 715 @@ Ord("s") :> 794
 @@ Ord("r") :> 664 @@ Ord("t") :> 730 @@ Ord("u") :> 605
 @@ Ord("l") :> 534 @@ Ord("d") :> 367 @@ Ord("c") :> 315
 @@ Ord("p") :> 301 @@ Ord("m") :> 274 @@ Ord("h") :> 92
 @@ Ord("g") :> 104 @@ Ord("f") :> 107 @@ Ord("b") :> 147
 @@ Ord("v") :> 113 @@ Ord("q") :> 89 @@ Ord("j") :> 89
 @@ Ord("k") :> 0 @@ Ord("w") :> 0 @@ Ord("x") :> 54
 @@ Ord("y") :> 46 @@ Ord("z") :> 12

\* the insertion order of the FR_FREQUENCIES dict literal
FrequencyOrder ==
    Str(<<"e","a","i","o","n","s","r","t","u","l","d","c","p",
          "m","h","g","f","b","v","q","j","k","w","x","y","z">>)

\* FR_COMMON_WORDS
CommonWords ==
    { Str(<<"l","e">>), Str(<<"l","a">>), Str(<<"d","e">>), Str(<<"e","t">>),
      Str(<<"a_grave">>), Str(<<"u","n">>), Str(<<"u","n","e">>), Str(<<"l","e","s">>),
      Str(<<"d","e","s">>), Str(<<"e","n">>), Str(<<"p","a","r">>),
      Str(<<"p","o","u","r">>), Str(<<"d","a","n","s">>), Str(<<"a","v","e","c">>),
      Str(<<"s","u","r">>), Str(<<"q","u","e">>), Str(<<"q","u","i">>),
      Str(<<"e","s","t">>), Str(<<"i","l">>), Str(<<"e","l","l","e">>),
      Str(<<"v","o","u","s">>), Str(<<"n","o","u","s">>), Str(<<"j","e">>),
      Str(<<"t","u">>), Str(<<"c","e">>), Str(<<"a","u">>), Str(<<"d","u">>),
      Str(<<"s","e">>), Str(<<"p","a","s">>), Str(<<"p","l","u","s">>),
      Str(<<"b","i","e","n">>), Str(<<"p","e","u">>), Str(<<"f","a","i","t">>) }

-----------------------------------------------------------------------------
(* Cipher transforms                                                       *)

base == 97

\* caesar_char without the isalpha test: every character is shifted
caesar_char_all(c, shift) == base + ((c - base - shift) % 26)

\* CryptoAnalyzer.caesar_decrypt, one character
caesar_char(c, shift) ==
    IF isalpha(c) THEN base + ((c - base - shift) % 26) ELSE c

\* CryptoAnalyzer.caesar_decrypt
caesar_decrypt(t, shift) == [i \in 1..Len(t) |-> caesar_char(t[i], shift)]

\* CryptoAnalyzer.monoalpha_decrypt: key is a function from characters to
\* characters; key.get(c, c)
monoalpha_decrypt(t, key) ==
    [i \in 1..Len(t) |-> IF t[i] \in DOMAIN key THEN key[t[i]] ELSE t[i]]

-----------------------------------------------------------------------------
(* Scorer                                                                  *)

PerCent == 100

\* scores are held in units of 1/Scale
Scale == PerCent * PerCent

\* float('inf') and a finite float
Inf == [inf |-> TRUE, val |-> 0]
Fin(v) == [inf |-> FALSE, val |-> v]

\* a < b on floats
less(a, b) == ~a.inf /\ (b.inf \/ a.val < b.val)

RECURSIVE muldivmod(_, _, _)
\* <<q, r>> with x * y = q * z + r and 0 <= r < z, for 0 <= x < z and y >= 0,
\* taking y eight bits at a time so that no intermediate value exceeds 512 * z
muldivmod(x, y, z) ==
    IF y = 0 THEN <<0, 0>>
    ELSE LET h == muldivmod(x, y \div 256, z)
             d == 256 * h[2] + (y % 256) * x
         IN  <<256 * h[1] + (d \div z), d % z>>

\* (d ** 2) / z rounded down, for d >= 0 and z > 0; d * d itself exceeds
\* 32 bits from d = 46341 on
square_div(d, z) ==
    IF d <= 46340 THEN (d * d) \div z
    ELSE (d \div z) * d + muldivmod(d % z, d, z)[1]

abs(x) == IF x < 0 THEN -x ELSE x

\* one pass of the loop of chi_squared_score: the term added for letter,
\* in units of 1/Scale; observed and expected are held in units of 1/Scale
chi_term(text_clean, letter) ==
    LET observed == Scale * count(text_clean, letter)
        expected == (IF letter \in DOMAIN FR_FREQUENCIES
                     THEN FR_FREQUENCIES[letter] ELSE 0) * Len(text_clean)
    IN  IF expected > 0 THEN square_div(abs(observed - expected), expected) ELSE 0

RECURSIVE chi_sum(_, _)
\* chi2 after the first n letters of string.ascii_lowercase
chi_sum(text_clean, n) ==
    IF n = 0 THEN 0
    ELSE chi_sum(text_clean, n - 1) + chi_term(text_clean, ascii_lowercase[n])

\* chi_squared_score without the sentinel for a text without letters
chi_squared_score_no_sentinel(t) ==
    Fin(chi_sum(alpha_only(t), Len(ascii_lowercase)))

\* CryptoAnalyzer.chi_squared_score
chi_squared_score(t) ==
    LET text_clean == alpha_only(t)
    IN  IF text_clean = <<>> THEN Inf
        ELSE Fin(chi_sum(text_clean, Len(ascii_lowercase)))

\* word_score without the len(w) > 2 test
word_score_any_length(t) ==
    LET words == split(lower(t))
        words_clean == [i \in 1..Len(words) |-> alpha_only(words[i])]
        matches == Cardinality({i \in 1..Len(words_clean) :
                       words_clean[i] \in FR_COMMON_WORDS})
    IN  IF words_clean = <<>> THEN 0
        ELSE (Scale * matches) \div Len(words_clean)

\* CryptoAnalyzer.word_score, in units of 1/Scale
word_score(t) ==
    LET words == split(lower(t))
        words_clean == [i \in 1..Len(words) |-> alpha_only(words[i])]
        matches == Cardinality({i \in 1..Len(words_clean) :
                       words_clean[i] \in FR_COMMON_WORDS /\ Len(words_clean[i]) > 2})
    IN  IF words_clean = <<>> THEN 0
        ELSE (Scale * matches) \div Len(words_clean)

WordWeight == 50

\* combined_score with the word bonus added instead of subtracted
combined_score_added(t) ==
    LET chi2 == chi_squared_score(t)
        word_bonus == word_score(t) * WordWeight
    IN  IF chi2.inf THEN Inf ELSE Fin(chi2.val + word_bonus)

\* CryptoAnalyzer.combined_score
combined_score(t) ==
    LET chi2 == chi_squared_score(t)
        word_bonus == word_score(t) * WordWeight
    IN  IF chi2.inf THEN Inf ELSE Fin(chi2.val - word_bonus)

-----------------------------------------------------------------------------
(* Key search                                                              *)

NumShifts == 26

RECURSIVE min_from_last(_, _, _)
\* min_from replacing the running best by an equal score too
min_from_last(results, best, i) ==
    IF i > Len(results) THEN best
    ELSE LET x == results[i]
         IN  min_from_last(results, IF less(best.score, x.score) THEN best ELSE x, i + 1)

RECURSIVE min_from(_, _, _)
\* min(results, key=lambda x: x[2]): the running best, replaced only by a
\* strictly smaller score
min_from(results, best, i) ==
    IF i > Len(results) THEN best
    ELSE LET x == results[i]
         IN  min_from(results, IF less(x.score, best.score) THEN x ELSE best, i + 1)

\* the results list built by the loop of break_caesar
caesar_results(enc) ==
    [i \in 1..NumShifts |->
        LET shift == i - 1
            decrypted == caesar_decrypt(enc, shift)
        IN  [shift |-> shift, decrypted |-> decrypted,
             score |-> combined_score(decrypted)]]

\* CryptoAnalyzer.break_caesar
break_caesar(enc) ==
    LET results == caesar_results(enc)
    IN  min_from(results, results[1], 2)

\* the keys of Counter(s), in order of first occurrence
counter_keys(s) ==
    LET firsts == {i \in 1..Len(s) : \A j \in 1..(i - 1) : s[j] # s[i]}
        nth(k) == CHOOSE i \in firsts : Cardinality({j \in firsts : j < i}) = k - 1
    IN  [k \in 1..Cardinality(firsts) |-> s[nth(k)]]

RECURSIVE insert_desc(_, _, _)
\* x put into a descending sequence, behind every element at least as heavy
insert_desc(sorted, x, weight) ==
    IF sorted = <<>> THEN <<x>>
    ELSE IF weight[Head(sorted)] >= weight[x]
         THEN <<Head(sorted)>> \o insert_desc(Tail(sorted), x, weight)
         ELSE <<x>> \o sorted

RECURSIVE sorted_prefix(_, _, _)
\* the first n keys, sorted
sorted_prefix(keys, weight, n) ==
    IF n = 0 THEN <<>>
    ELSE insert_desc(sorted_prefix(keys, weight, n - 1), keys[n], weight)

RECURSIVE sorted_ascending(_, _)
\* sorted_desc without reverse=True
sorted_ascending(keys, weight) ==
    IF keys = <<>> THEN <<>>
    ELSE LET least == CHOOSE i \in 1..Len(keys) :
                          /\ \A j \in 1..Len(keys) : weight[keys[i]] <= weight[keys[j]]
                          /\ \A j \in 1..(i - 1) : weight[keys[j]] # weight[keys[i]]
         IN  <<keys[least]>> \o
             sorted_ascending(SubSeq(keys, 1, least - 1) \o
                              SubSeq(keys, least + 1, Len(keys)), weight)

\* sorted(items, key=lambda x: x[1], reverse=True) on the keys: descending
\* weight, equal weights kept in their order in keys (the sort is stable)
sorted_desc(keys, weight) == sorted_prefix(keys, weight, Len(keys))

\* the key dict built by the zip loop of break_monoalpha_simple
monoalpha_key(clean) ==
    LET keys == counter_keys(clean)
        text_freq == [c \in {keys[i] : i \in 1..Len(keys)} |-> count(clean, c)]
        sorted_encrypted == sorted_desc(keys, text_freq)
        sorted_french == sorted_desc(FrequencyOrder, FR_FREQUENCIES)
        n == IF Len(sorted_encrypted) < Len(sorted_french)
             THEN Len(sorted_encrypted) ELSE Len(sorted_french)
    IN  [c \in {sorted_encrypted[i] : i \in 1..n} |->
            sorted_french[CHOOSE i \in 1..n : sorted_encrypted[i] = c]]

\* CryptoAnalyzer.break_monoalpha_simple; key is the local it decrypts with
break_monoalpha_simple(enc, clean) ==
    LET key == monoalpha_key(clean)
        decrypted == monoalpha_decrypt(enc, key)
    IN  [decrypted |-> decrypted, score |-> combined_score(decrypted), key |-> key]

-----------------------------------------------------------------------------
(* The analyzer and its callers                                            *)

\* the longest text a caller makes up, the largest shift it passes, and the
\* number of analyzers it constructs one from the output of the other
MaxLen == 2
MaxShift == 27
MaxAnalyzers == 2

\* the characters the made-up texts are written with: lowercase and capital
\* letters, an accented letter, a space and a comma
Chars == {Ord("e"), Ord("s"), Ord("t"), Ord("E"), Ord("e_acute"), Ord(" "), Ord(",")}

Texts == UNION {[1..n -> Chars] : n \in 0..MaxLen}

\* the messages of usage_personnalisee and of the tests
ton_texte_chiffre == Str(<<"u","r","y","y","b"," ","j","b","e","y","q">>)
ton_texte2 ==
    Str(<<"u","r"," ","o","x","m","m","d","v","u"," ","c","r","u"," ","k","u","d"," ",
          "r","u","d","r","r","i","a","u"," ","c","r","u"," ","q","d","p","v","x","i","u">>)
mon_secret ==
    Str(<<"c","e","c","i"," ","e","s","t"," ","u","n"," ","s","e","c","r","e","t">>)
message1 ==
    Str(<<"B","o","n","j","o","u","r",","," ","c","e","c","i"," ","e","s","t"," ",
          "u","n"," ","m","e","s","s","a","g","e"," ","s","e","c","r","e","t"," ",
          "a","v","e","c"," ","u","n"," ","c","h","i","f","f","r","e"," ","d","e"," ",
          "C","e_acute","s","a","r">>)
message2 ==
    Str(<<"l","e"," ","c","h","i","f","f","r","e"," ","d","e"," ",
          "s","u","b","s","t","i","t","u","t","i","o","n"," ","e","s","t"," ",
          "u","n","e"," ","m","e","t","h","o","d","e"," ","a","n","c","i","e","n","n","e">>)
message3 ==
    Str(<<"c","r","y","p","t","a","n","a","l","y","s","e"," ",
          "a","u","t","o","m","a","t","i","q","u","e">>)

Examples == {ton_texte_chiffre, ton_texte2, mon_secret, message1, message2, message3}

\* longer texts of a caller: common words of every length, a text holding
\* the 26 letters and an accented one, and a text without any letter
Phrases ==
    { Str(<<"L","e","s"," ","e","s","t",","," ","l","e"," ","a_grave"," ","u","n","e">>),
      Str(<<"p","o","r","t","e","z"," ","c","e"," ","v","i","e","u","x"," ",
            "w","h","i","s","k","y"," ","a","u"," ","j","u","g","e"," ",
            "b","l","o","n","d"," ","q","u","i"," ","f","u","m","e"," ","e_acute">>),
      Str(<<","," ",","," ">>) }

Inputs == Texts \cup Examples \cup Phrases

Shifts == (-MaxShift)..MaxShift

\* the shifts the callers in the source encrypt with
UsageShifts == {-3, -5, -7}

\* substitution keys: the letter-to-letter dicts over the letters L
KeysOver(L) == UNION {[D -> L] : D \in SUBSET L}

Keys == KeysOver({Ord("e"), Ord("s"), Ord("t")})
UsageKeys == KeysOver({Ord("e"), Ord("s")})

None == <<>>

\* the state after analyzer = CryptoAnalyzer(text) with text among S, the
\* module tables loaded
InitWith(S) ==
    /\ FR_FREQUENCIES = FrequencyTable
    /\ FR_COMMON_WORDS = CommonWords
    /\ text \in S
    /\ encrypted = lower(text)
    /\ clean_text = alpha_only(lower(text))
    /\ op = "__init__"
    /\ arg = None
    /\ out = None
    /\ made = 1
    /\ first_triple = None
    /\ called_since = FALSE

tables == <<FR_FREQUENCIES, FR_COMMON_WORDS>>
fields == <<encrypted, clean_text>>
frame == <<tables, fields, text, made>>

\* the record of the calls, kept when a method other than break_caesar runs
OtherCall ==
    /\ first_triple' = first_triple
    /\ called_since' = (first_triple # None)

\* caesar_decrypt keeping its result in self.encrypted
CaesarDecryptStoring(shift) ==
    /\ op' = "caesar_decrypt"
    /\ arg' = shift
    /\ out' = caesar_decrypt(text, shift)
    /\ encrypted' = out'
    /\ clean_text' = alpha_only(out')
    /\ OtherCall
    /\ UNCHANGED <<tables, text, made>>

\* analyzer.caesar_decrypt(text, shift)
CaesarDecrypt(shift) ==
    /\ op' = "caesar_decrypt"
    /\ arg' = shift
    /\ out' = caesar_decrypt(text, shift)
    /\ OtherCall
    /\ UNCHANGED frame

\* analyzer.monoalpha_decrypt(text, key)
MonoalphaDecrypt(key) ==
    /\ op' = "monoalpha_decrypt"
    /\ arg' = key
    /\ out' = monoalpha_decrypt(text, key)
    /\ OtherCall
    /\ UNCHANGED frame

\* analyzer.chi_squared_score(text)
ChiSquaredScore ==
    /\ op' = "chi_squared_score"
    /\ arg' = None
    /\ out' = chi_squared_score(text)
    /\ OtherCall
    /\ UNCHANGED frame

\* analyzer.word_score(text)
WordScore ==
    /\ op' = "word_score"
    /\ arg' = None
    /\ out' = word_score(text)
    /\ OtherCall
    /\ UNCHANGED frame

\* analyzer.combined_score(text)
CombinedScore ==
    /\ op' = "combined_score"
    /\ arg' = None
    /\ out' = combined_score(text)
    /\ OtherCall
    /\ UNCHANGED frame

\* analyzer.break_caesar()
BreakCaesar ==
    /\ op' = "break_caesar"
    /\ arg' = None
    /\ out' = break_caesar(encrypted)
    /\ first_triple' = IF first_triple = None THEN out' ELSE first_triple
    /\ UNCHANGED <<frame, called_since>>

\* analyzer.break_monoalpha_simple()
BreakMonoalphaSimple ==
    /\ op' = "break_monoalpha_simple"
    /\ arg' = None
    /\ out' = break_monoalpha_simple(encrypted, clean_text)
    /\ OtherCall
    /\ UNCHANGED frame

\* analyzer = CryptoAnalyzer(encrypted), encrypted the output of the
\* caesar_decrypt call before it; the caller goes on with the new analyzer
\* and the ciphertext
NewAnalyzer ==
    /\ op = "caesar_decrypt"
    /\ made < MaxAnalyzers
    /\ made' = made + 1
    /\ text' = out
    /\ encrypted' = lower(out)
    /\ clean_text' = alpha_only(lower(out))
    /\ op' = "__init__"
    /\ arg' = None
    /\ out' = None
    /\ first_triple' = None
    /\ called_since' = FALSE
    /\ UNCHANGED tables

\* the callers of the source: an analyzer of one of the example messages,
\* any method called any number of times, new analyzers made of ciphertexts
Init == InitWith(Examples)

Next ==
    \/ \E shift \in UsageShifts : CaesarDecrypt(shift)
    \/ \E key \in UsageKeys : MonoalphaDecrypt(key)
    \/ ChiSquaredScore
    \/ WordScore
    \/ CombinedScore
    \/ BreakCaesar
    \/ BreakMonoalphaSimple
    \/ NewAnalyzer

Spec == Init /\ [][Next]_vars

\* the two cipher transforms, called with any text, any shift and any key
InitInputs == InitWith(Inputs)

NextTransforms ==
    \/ \E shift \in Shifts : CaesarDecrypt(shift)
    \/ \E key \in Keys : MonoalphaDecrypt(key)

SpecTransforms == InitInputs /\ [][NextTransforms]_vars

\* the scorer and the key search, called with any text
NextSearch ==
    \/ ChiSquaredScore
    \/ WordScore
    \/ CombinedScore
    \/ BreakCaesar
    \/ BreakMonoalphaSimple

SpecSearch == InitInputs /\ [][NextSearch]_vars

-----------------------------------------------------------------------------
(* Properties                                                              *)

\* a letter outside a-z and A-Z
accented(c) == isalpha(c) /\ c \notin 65..90 /\ c \notin 97..122

\* C1: round trip: a lowercase text encrypted with caesar_decrypt(text, -s),
\* s in 0..25, and decrypted again with shift s is the text
CaesarRoundTrip ==
    (op = "caesar_decrypt" /\ -arg \in 0..25 /\ lower(text) = text)
        => caesar_decrypt(out, -arg) = text

\* C2: accented letters are not alphabetic: caesar_decrypt copies them
\* through at their position, and neither clean_text nor the statistic of
\* chi_squared_score counts them
AccentedPassThrough ==
    /\ op = "caesar_decrypt" =>
           \A i \in 1..Len(text) : accented(text[i]) => out[i] = text[i]
    /\ \A i \in 1..Len(clean_text) : ~accented(clean_text[i])
    /\ op = "chi_squared_score" =>
           out = chi_squared_score(SelectSeq(text, LAMBDA c : ~accented(c)))

\* C3: caesar_decrypt and monoalpha_decrypt return a text as long as their
\* input, with every non-alphabetic character of the input unchanged at its
\* index
LengthAndNonAlphaPreserved ==
    op \in {"caesar_decrypt", "monoalpha_decrypt"} =>
        /\ DOMAIN out = 1..Len(text)
        /\ \A i \in 1..Len(text) : ~isalpha(text[i]) => out[i] = text[i]

LengthAndNonAlphaWitness ==
    /\ op = "caesar_decrypt"
    /\ arg = -7
    /\ out # text
    /\ \E i \in 1..Len(text) : ~isalpha(text[i]) /\ ~isspace(text[i])
    /\ \E i \in 1..Len(text) : isalpha(text[i])

\* the combined score of the candidate of shift s
candidate_score(s) == combined_score(caesar_decrypt(lower(text), s))

\* C4: break_caesar returns the candidate of the lowercased ciphertext
\* whose score is minimal over the shifts 0..25, and among the shifts of
\* minimal score the lowest
BreakCaesarMinimal ==
    op = "break_caesar" =>
        /\ out.shift \in 0..25
        /\ out.decrypted = caesar_decrypt(lower(text), out.shift)
        /\ out.score = candidate_score(out.shift)
        /\ \A s \in 0..25 : ~less(candidate_score(s), out.score)
        /\ \A s \in 0..(out.shift - 1) : less(out.score, candidate_score(s))

\* break_caesar has returned a shift other than 0 whose finite score a
\* higher shift reaches too
BreakCaesarTieWitness ==
    /\ op = "break_caesar"
    /\ out.shift > 0
    /\ ~out.score.inf
    /\ \E s \in (out.shift + 1)..25 : candidate_score(s) = out.score

\* C5: on a ciphertext without any alphabetic character break_caesar
\* returns shift 0 with score infinity, all 26 candidates scoring infinity
BreakCaesarNoLetters ==
    (op = "break_caesar" /\ \A i \in 1..Len(text) : ~isalpha(text[i])) =>
        /\ out.shift = 0
        /\ out.score = Inf
        /\ out.decrypted = lower(text)
        /\ \A s \in 0..25 : candidate_score(s) = Inf

BreakCaesarNoLettersWitness ==
    /\ op = "break_caesar"
    /\ text # <<>>
    /\ \A i \in 1..Len(text) : ~isalpha(text[i])
    /\ out.score = Inf

\* C6: break_caesar on the ciphertext caesar_decrypt("ceci est un secret", -7)
\* returns shift 7 and the plaintext "ceci est un secret"
ScenarioRecovered ==
    (op = "break_caesar" /\ encrypted = caesar_decrypt(mon_secret, -7)) =>
        /\ out.shift = 7
        /\ out.decrypted = mon_secret

ScenarioWitness ==
    /\ op = "break_caesar"
    /\ made = 2
    /\ text = caesar_decrypt(mon_secret, -7)
    /\ text # mon_secret
    /\ encrypted = text
    /\ out.shift = 7

\* C7: no method changes the module tables or the fields of the analyzer,
\* and every break_caesar of an analyzer returns what its first one
\* returned, whatever was called in between
NoPersistentState ==
    /\ [][UNCHANGED tables /\ (op' # "__init__" => UNCHANGED fields)]_vars
    /\ [](op = "break_caesar" => out = first_triple)

NoPersistentStateWitness ==
    /\ op = "break_caesar"
    /\ called_since
    /\ out = first_triple
    /\ made = 2

\* C8: chi_squared_score counts a capital letter as its lowercase letter,
\* so it returns on a text what it returns on the lowercased text, and it
\* returns infinity exactly on a text without alphabetic character
ChiSquaredCaseFolded ==
    op = "chi_squared_score" =>
        /\ out = chi_squared_score(lower(text))
        /\ (out = Inf) <=> (\A i \in 1..Len(text) : ~isalpha(text[i]))

\* the indices where a whitespace-separated token of text starts
token_starts == {i \in 1..Len(text) :
                    ~isspace(text[i]) /\ (i = 1 \/ isspace(text[i - 1]))}

\* the letters of the token starting at i, in lowercase
token_form(i) ==
    LET last == CHOOSE j \in i..Len(text) :
                    /\ \A k \in i..j : ~isspace(text[k])
                    /\ (j = Len(text) \/ isspace(text[j + 1]))
    IN  lower(alpha_only(SubSeq(text, i, last)))

matching_tokens == {i \in token_starts :
                       token_form(i) \in CommonWords /\ Len(token_form(i)) > 2}

\* C9: word_score is 0 on a text without token and otherwise the number of
\* tokens whose letters-only lowercase form is a common word longer than 2
\* divided by the number of tokens; it lies between 0 and 1
WordScoreIsMatchRatio ==
    op = "word_score" =>
        LET tokens == Cardinality(token_starts)
            matches == Cardinality(matching_tokens)
        IN  /\ 0 <= out /\ out <= Scale
            /\ tokens = 0 => out = 0
            /\ tokens > 0 => /\ out * tokens <= Scale * matches
                             /\ Scale * matches < (out + 1) * tokens

\* word_score has counted some tokens and not others, among the others a
\* common word of one or two letters
WordScoreWitness ==
    /\ op = "word_score"
    /\ 0 < out /\ out < Scale
    /\ \E i \in token_starts : token_form(i) \in CommonWords /\ Len(token_form(i)) <= 2

\* the distinct letters of the letters-only view
observed_letters == {clean_text[i] : i \in 1..Len(clean_text)}

\* C10: the key of break_monoalpha_simple is injective, has min(d, 26)
\* entries for d distinct letters, and pairs the letters by frequency rank:
\* the more frequent observed letter gets the more frequent reference
\* letter, the reference letters used are the most frequent ones, and the
\* observed letters left out are the least frequent ones; a character
\* without entry is unchanged in the plaintext, whose combined_score is the
\* score returned
MonoalphaKeyByRank ==
    op = "break_monoalpha_simple" =>
        LET key == out.key
            d == Cardinality(observed_letters)
            freq(c) == FrequencyTable[c]
        IN  /\ DOMAIN key \subseteq observed_letters
            /\ Cardinality(DOMAIN key) = IF d < 26 THEN d ELSE 26
            /\ \A x, y \in DOMAIN key : key[x] = key[y] => x = y
            /\ \A x \in DOMAIN key : key[x] \in DOMAIN FrequencyTable
            /\ \A x, y \in DOMAIN key :
                   count(clean_text, x) > count(clean_text, y) => freq(key[x]) >= freq(key[y])
            /\ \A x \in DOMAIN key : \A r \in DOMAIN FrequencyTable :
                   freq(r) > freq(key[x]) => \E y \in DOMAIN key : key[y] = r
            /\ \A x \in DOMAIN key : \A y \in observed_letters \ DOMAIN key :
                   count(clean_text, x) >= count(clean_text, y)
            /\ DOMAIN out.decrypted = 1..Len(encrypted)
            /\ \A i \in 1..Len(encrypted) :
                   out.decrypted[i] = IF encrypted[i] \in DOMAIN key
                                      THEN key[encrypted[i]] ELSE encrypted[i]
            /\ out.score = combined_score(out.decrypted)

\* break_monoalpha_simple has run on a text of more than 26 distinct
\* letters, one of them left without entry and unchanged in the plaintext
MonoalphaKeyWitness ==
    /\ op = "break_monoalpha_simple"
    /\ Cardinality(observed_letters) > 26
    /\ Cardinality(DOMAIN out.key) = 26
    /\ \E i \in 1..Len(encrypted) :
           /\ isalpha(encrypted[i])
           /\ encrypted[i] \notin DOMAIN out.key
           /\ out.decrypted[i] = encrypted[i]

====
